---------------------------- MODULE Spec2Model ----------------------------
(***************************************************************************)
(* SpeedTest-Auto-Logger (speedlogger.py): one run of main() per process,  *)
(* started again and again by an external scheduler.  A run calls the      *)
(* speed-test tool, saves the decoded payload, parses it, stores one row   *)
(* in the SQLite table and one row in the CSV file, and raises an alert    *)
(* through a Discord webhook when a threshold is breached.                 *)
(*                                                                         *)
(* Filesystem and SQLite writes are taken to succeed, and the scheduler     *)
(* starts the processes one after another, each in a second of its own.    *)
(* The tool, its output and the webhook are the environment and are drawn  *)
(* with \E.  Text is ASCII: the dash of the alert texts is written "-".    *)
(***************************************************************************)
EXTENDS Integers, Sequences, FiniteSets, TLC

VARIABLES
    run,          \* number of processes started so far
    pc,           \* position of the current process inside main()
    clock,        \* seconds of wall-clock time read by get_ist_time()
    webhook,      \* DISCORD_WEBHOOK as read from the environment
    thr,          \* the three thresholds as read from the environment
    data,         \* decoded payload returned by run_speedtest()
    err,          \* text of the exception raised by run_speedtest()
    raw_file,     \* value returned by save_raw_json()
    parsed,       \* value returned (or exception raised) by parse_speedtest_json()
    ts_iso,       \* main()'s ts_iso
    rawFiles,     \* files of RAW_DIR: set of [name, content]
    dbTable,      \* whether table speedtest exists in DB_PATH
    db,           \* rows of table speedtest, in insertion order
    csvAtStart,   \* "absent" or "empty": CSV_PATH before the first process
    csvExists,    \* os.path.exists(CSV_PATH)
    csv,          \* rows of CSV_PATH, each a sequence of cell texts
    msgs,         \* check_and_alert()'s msgs
    stdout,       \* lines printed by the current process (stdout and stderr)
    posts,        \* payloads handed to requests.post by the current process
    exitCode,     \* exit status of the current process, -1 while it runs
    steps         \* calls main() has made in the current process, in order

vars == <<run, pc, clock, webhook, thr, data, err, raw_file, parsed, ts_iso,
          rawFiles, dbTable, db, csvAtStart, csvExists, csv, msgs, stdout,
          posts, exitCode, steps>>

\* Number of processes the scheduler starts.
MaxRuns == 3

-----------------------------------------------------------------------------
(* JSON documents as json.loads returns them.  Every value has the same    *)
(* shape: k is the Python type, n/d a number (n over d; n is also the      *)
(* truth value of a bool and the length of a list), s a str, sub the       *)
(* entries of a dict.                                                      *)

NoEntries == [x \in {} |-> 0]

JNull == [k |-> "null", n |-> 0, d |-> 1, s |-> "", sub |-> NoEntries]

JBool(b) == [k |-> "bool", n |-> IF b THEN 1 ELSE 0, d |-> 1, s |-> "", sub |-> NoEntries]

JNum(n) == [k |-> "num", n |-> n, d |-> 1, s |-> "", sub |-> NoEntries]

JFrac(n, d) == [k |-> "num", n |-> n, d |-> d, s |-> "", sub |-> NoEntries]

JStr(s) == [k |-> "str", n |-> 0, d |-> 1, s |-> s, sub |-> NoEntries]

JList(len) == [k |-> "list", n |-> len, d |-> 1, s |-> "", sub |-> NoEntries]

JDict(entries) == [k |-> "dict", n |-> 0, d |-> 1, s |-> "", sub |-> entries]

\* dict.get(key): the entry, or None when the key is missing.
Get(v, key) == IF key \in DOMAIN v.sub THEN v.sub[key] ELSE JNull

\* Python truth value, as used by `or`.
Truthy(v) ==
    CASE v.k = "null" -> FALSE
      [] v.k = "bool" -> v.n = 1
      [] v.k = "num"  -> v.n # 0
      [] v.k = "str"  -> v.s # ""
      [] v.k = "list" -> v.n # 0
      [] v.k = "dict" -> DOMAIN v.sub # {}

\* a or b
PyOr(a, b) == IF Truthy(a) THEN a ELSE b

\* isinstance(v, (int, float)); bool is a subclass of int.
IsNumber(v) == v.k \in {"num", "bool"}

-----------------------------------------------------------------------------
(* Python floats as exact rationals num/den in lowest terms; some = FALSE  *)
(* is None.                                                                *)

RECURSIVE GCD(_, _)
GCD(a, b) == IF b = 0 THEN a ELSE GCD(b, a % b)

PyNone == [some |-> FALSE, num |-> 0, den |-> 1]

MkFloat(n, d) ==
    LET g == IF n = 0 THEN d ELSE GCD(IF n < 0 THEN -n ELSE n, d)
    IN  [some |-> TRUE, num |-> n \div g, den |-> d \div g]

Div1e6_NoScale(x) == x

\* x / 1e6
Div1e6(x) == MkFloat(x.num, x.den * 1000000)

\* a < b on floats
Lt(a, b) == a.num * b.den < b.num * a.den

\* The strings of the model that float() accepts, with their value.
NumericText(s) ==
    CASE s = "200000000" -> MkFloat(200000000, 1)
      [] s = "12.5"      -> MkFloat(25, 2)
      [] OTHER           -> PyNone

\* float(v): [exc, val]; exc = "" when no exception is raised.
PyFloat(v) ==
    CASE v.k \in {"num", "bool"} -> [exc |-> "", val |-> MkFloat(v.n, v.d)]
      [] v.k = "str" ->
            IF NumericText(v.s).some
            THEN [exc |-> "", val |-> NumericText(v.s)]
            ELSE [exc |-> "ValueError", val |-> PyNone]
      [] OTHER -> [exc |-> "TypeError", val |-> PyNone]

\* Decimal digits of a natural number.
RECURSIVE Digits(_)
Digits(n) ==
    LET D == <<"0", "1", "2", "3", "4", "5", "6", "7", "8", "9">>
    IN  IF n < 10 THEN D[n + 1] ELSE Digits(n \div 10) \o D[(n % 10) + 1]

\* str(v) for the values that reach it: str, int and bool.
PyStr(v) ==
    CASE v.k = "str"  -> v.s
      [] v.k = "bool" -> IF v.n = 1 THEN "True" ELSE "False"
      [] v.k = "num" /\ v.d = 1 ->
            IF v.n < 0 THEN "-" \o Digits(-v.n) ELSE Digits(v.n)

-----------------------------------------------------------------------------
(* parse_speedtest_json                                                    *)

\* What the parser returns: exc = "" and the six fields, or the exception
\* that leaves it.
Returned(dl, ul, pg, sid, sname, ip) ==
    [exc |-> "", download |-> dl, upload |-> ul, ping |-> pg,
     server_id |-> sid, server_name |-> sname, client_ip |-> ip]

Raised(e) ==
    [exc |-> e, download |-> PyNone, upload |-> PyNone, ping |-> PyNone,
     server_id |-> "", server_name |-> "", client_ip |-> ""]

\* The download/upload branch: a dict with key 'bandwidth', or a number.
Throughput(v) ==
    IF v.k = "dict" /\ "bandwidth" \in DOMAIN v.sub
    THEN LET f == PyFloat(v.sub["bandwidth"])
         IN  IF f.exc # "" THEN f ELSE [exc |-> "", val |-> Div1e6(f.val)]
    ELSE IF IsNumber(v)
    THEN [exc |-> "", val |-> Div1e6(PyFloat(v).val)]
    ELSE [exc |-> "", val |-> PyNone]

\* The ping branch: a dict with key 'latency', or a number.
Latency(v) ==
    IF v.k = "dict" /\ "latency" \in DOMAIN v.sub
    THEN PyFloat(v.sub["latency"])
    ELSE IF IsNumber(v)
    THEN PyFloat(v)
    ELSE [exc |-> "", val |-> PyNone]

AltDownloadKeys ==
    <<"download_mbps", "downloadMbps", "download_bandwidth", "download_bandwidth_mbps">>

AltUploadKeys ==
    <<"upload_mbps", "uploadMbps", "upload_bandwidth", "upload_bandwidth_mbps">>

\* for k in keys: if k in data and isinstance(data[k], (int, float)): acc = float(data[k])
\* The loop has no break: it runs over every key.
RECURSIVE AltLoop(_, _, _, _)
AltLoop(doc, keys, i, acc) ==
    IF i > Len(keys) THEN acc
    ELSE AltLoop(doc, keys, i + 1,
                 IF keys[i] \in DOMAIN doc.sub /\ IsNumber(doc.sub[keys[i]])
                 THEN PyFloat(doc.sub[keys[i]]).val
                 ELSE acc)

\* if value is None: <loop over the alternate keys>
AltKeys(doc, keys, value) ==
    IF value.some THEN value ELSE AltLoop(doc, keys, 1, PyNone)

parse_speedtest_json(doc) ==
    IF doc.k # "dict"
    THEN Returned(PyNone, PyNone, PyNone, "", "", "")
    ELSE LET dl     == Throughput(Get(doc, "download"))
             ul     == Throughput(Get(doc, "upload"))
             pg     == Latency(Get(doc, "ping"))
             server == PyOr(Get(doc, "server"), JDict(NoEntries))
             client == PyOr(Get(doc, "client"), JDict(NoEntries))
         IN  IF dl.exc # "" THEN Raised(dl.exc)
             ELSE IF ul.exc # "" THEN Raised(ul.exc)
             ELSE IF pg.exc # "" THEN Raised(pg.exc)
             ELSE IF server.k # "dict" \/ client.k # "dict"
             THEN Raised("AttributeError")
             ELSE Returned(
                    AltKeys(doc, AltDownloadKeys, dl.val),
                    AltKeys(doc, AltUploadKeys, ul.val),
                    pg.val,
                    PyStr(PyOr(PyOr(Get(server, "id"), Get(server, "host")), JStr(""))),
                    PyStr(PyOr(PyOr(Get(server, "name"), Get(server, "host")), JStr(""))),
                    PyStr(PyOr(Get(client, "ip"), JStr(""))))

-----------------------------------------------------------------------------
(* Tool outputs.                                                           *)

\* Marks a key that the document does not have.
Absent == [k |-> "absent", n |-> 0, d |-> 1, s |-> "", sub |-> NoEntries]

\* The dict holding the chosen entries.
MkDict(choice) ==
    JDict([key \in {x \in DOMAIN choice : choice[x].k # "absent"} |-> choice[key]])

\* Values of 'download' and 'upload'.
ThroughputValues ==
    { Absent, JNull, JNum(0), JNum(200000000), JBool(TRUE), JStr("fast"),
      JDict(NoEntries),
      JDict([bandwidth |-> JNum(200000000), bytes |-> JNum(7)]),
      JDict([bandwidth |-> JNum(149999999)]),
      JDict([bandwidth |-> JStr("200000000")]),
      JDict([bandwidth |-> JStr("fast")]),
      JDict([bandwidth |-> JNull]) }

UploadValues ==
    { Absent, JNum(50000000), JDict([bandwidth |-> JNum(50000000)]) }

PingValues ==
    { Absent, JNum(0), JFrac(25, 2), JDict([latency |-> JFrac(25, 2)]),
      JDict([latency |-> JList(0)]) }

ServerValues ==
    { Absent, JStr("ISP-X"), JNum(0),
      JDict([id |-> JNum(42), name |-> JStr("ISP-X")]),
      JDict([host |-> JStr("h.example:8080")]) }

ClientValues == { Absent, JList(1), JDict([ip |-> JStr("1.2.3.4")]) }

\* The alternate download keys, each missing or set; the values are in Mbps.
AltDownloadValues ==
    { [download_mbps |-> a, downloadMbps |-> b,
       download_bandwidth |-> c, download_bandwidth_mbps |-> e] :
        a \in {Absent, JNum(10)}, b \in {Absent, JNum(20)},
        c \in {Absent, JNum(30)}, e \in {Absent, JNum(40), JStr("40")} }

AltUploadValues == { Absent, JNum(5) }

\* The documents the parser is applied to under SpecParse.
ParsePayloads ==
    { JNull, JList(2), JStr("ok"), JNum(1) } \cup
    { MkDict([download |-> dv, upload |-> uv, ping |-> pv, server |-> sv,
              client |-> cv, upload_mbps |-> au,
              download_mbps |-> ad.download_mbps,
              downloadMbps |-> ad.downloadMbps,
              download_bandwidth |-> ad.download_bandwidth,
              download_bandwidth_mbps |-> ad.download_bandwidth_mbps]) :
        dv \in ThroughputValues, uv \in UploadValues, pv \in PingValues,
        sv \in ServerValues, cv \in ClientValues,
        ad \in AltDownloadValues, au \in AltUploadValues }

-----------------------------------------------------------------------------
(* Text conversions.  Floats are non-negative and have a finite decimal    *)
(* expansion in every document drawn here.                                 *)

\* The digits after the decimal point of r/den, r < den.
RECURSIVE FracDigits(_, _)
FracDigits(r, den) ==
    IF r = 0 THEN ""
    ELSE Digits((r * 10) \div den) \o FracDigits((r * 10) % den, den)

\* repr of a float below 1e-4: mantissa, "e-", two-digit exponent.
RECURSIVE Scientific(_, _, _)
Scientific(num, den, e) ==
    IF num >= den
    THEN Digits(num \div den)
           \o (IF num % den = 0 THEN "" ELSE "." \o FracDigits(num % den, den))
           \o "e-" \o (IF e < 10 THEN "0" ELSE "") \o Digits(e)
    ELSE Scientific(num * 10, den, e + 1)

\* repr(x) / str(x) of a float.
Repr(x) ==
    IF x.num = 0 THEN "0.0"
    ELSE IF x.num >= (x.den + 9999) \div 10000
    THEN Digits(x.num \div x.den) \o "."
           \o (IF x.num % x.den = 0 THEN "0" ELSE FracDigits(x.num % x.den, x.den))
    ELSE Scientific(x.num, x.den, 0)

\* f"{x}" of a float or None.
PyFormat(x) == IF x.some THEN Repr(x) ELSE "None"

\* f"{x:.1f}": one decimal, ties to even.
Fmt1(x) ==
    LET q  == (x.num * 10) \div x.den
        r  == (x.num * 10) % x.den
        up == 2 * r > x.den \/ (2 * r = x.den /\ q % 2 = 1)
        t  == IF up THEN q + 1 ELSE q
    IN  Digits(t \div 10) \o "." \o Digits(t % 10)

\* What csv.writer writes for a float or None.
CsvCell(x) == IF x.some THEN Repr(x) ELSE ""

\* Two-digit seconds.
TwoDigits(n) == (IF n < 10 THEN "0" ELSE "") \o Digits(n)

\* get_ist_time() at second t of 2025-01-01T00:00 UTC: the IST wall clock.
get_ist_time(t) == [date |-> "2025-01-01", compact |-> "20250101", hm |-> "05:30", sec |-> t]

\* ist.isoformat()
IsoFormat(ist) == ist.date \o "T" \o ist.hm \o ":" \o TwoDigits(ist.sec)

\* ist.strftime('%Y%m%dT%H%M%S+05:30')
StrfCompact(ist) == ist.compact \o "T" \o "0530" \o TwoDigits(ist.sec) \o "+05:30"

RAW_DIR == "raw_logs"

\* The name save_raw_json() writes to.
RawName(t) == RAW_DIR \o "/speed_" \o StrfCompact(get_ist_time(t)) \o ".json"

-----------------------------------------------------------------------------
(* Configuration read from the environment when the process starts.        *)

WebhookChoices ==
    { "", "  ", "https://discord.example/api/webhooks/1/t",
      " https://discord.example/api/webhooks/1/t " }

\* str.strip() on the webhook values.
Strip(s) ==
    CASE s = "  " -> ""
      [] s = " https://discord.example/api/webhooks/1/t " ->
            "https://discord.example/api/webhooks/1/t"
      [] OTHER -> s

\* The thresholds when the environment sets none: 150.0, 150.0, 80.0.
DefaultThresholds ==
    [download |-> MkFloat(150, 1), upload |-> MkFloat(150, 1), ping |-> MkFloat(80, 1)]

\* float(os.environ.get(..., default)): the defaults, or an override.
ThresholdChoices ==
    { DefaultThresholds,
      [download |-> MkFloat(100, 1), upload |-> MkFloat(20, 1), ping |-> MkFloat(10, 1)] }

-----------------------------------------------------------------------------
(* run_speedtest                                                           *)

Installed == SUBSET {"speedtest", "speedtest-cli"}

find_speedtest_cmd(installed) ==
    IF "speedtest" \in installed THEN <<"speedtest", "--format=json">>
    ELSE IF "speedtest-cli" \in installed THEN <<"speedtest-cli", "--json">>
    ELSE <<>>

\* The documents the tool prints in the runs of main().
RunPayloads ==
    { JNull,
      MkDict([x \in {"download"} |-> Absent]),
      MkDict([download |-> JDict([bandwidth |-> JNum(200000000)]),
              upload   |-> JDict([bandwidth |-> JNum(50000000)]),
              ping     |-> JDict([latency |-> JFrac(25, 2)]),
              server   |-> JDict([id |-> JStr("42"), name |-> JStr("ISP-X")]),
              client   |-> JDict([ip |-> JStr("1.2.3.4")])]),
      MkDict([download |-> JDict([bandwidth |-> JNum(200000000)]),
              upload   |-> JDict([bandwidth |-> JNum(200000000)]),
              ping     |-> JDict([latency |-> JNum(0)]),
              server   |-> JDict([id |-> JStr("42"), name |-> JStr("ISP-X")]),
              client   |-> JDict([ip |-> JStr("1.2.3.4")])]),
      MkDict([download |-> JDict([bandwidth |-> JNum(200000000)]),
              upload   |-> JDict([bandwidth |-> JNum(200000000)]),
              ping     |-> JDict([latency |-> JNum(7)]),
              server   |-> JDict([id |-> JNum(42), name |-> JStr("ISP-X")]),
              client   |-> JDict([ip |-> JStr("1.2.3.4")])]),
      MkDict([download |-> JNum(90000000),
              upload   |-> JNum(0),
              ping     |-> JNum(100),
              server   |-> JDict([host |-> JStr("h.example:8080")]),
              client   |-> JDict([ip |-> JStr("1.2.3.4")])]),
      MkDict([upload   |-> JDict([bandwidth |-> JNum(200000000)]),
              ping     |-> JDict([latency |-> JNum(7)]),
              download_mbps |-> JNum(200)]),
      MkDict([download |-> JDict([bandwidth |-> JNum(200000000)]),
              upload   |-> JDict([bandwidth |-> JNum(200000000)]),
              server   |-> JStr("ISP-X")]),
      MkDict([download |-> JDict([bandwidth |-> JStr("fast")]),
              upload   |-> JDict([bandwidth |-> JNum(200000000)])]) }

\* What subprocess.run does: a timeout, or an exit status with the two
\* streams; json says whether stdout is a JSON text, out is what it decodes to.
ProcOutcomes ==
    { [kind |-> "timeout", rc |-> 0, stderr |-> "", json |-> FALSE, out |-> JNull],
      [kind |-> "exit", rc |-> 2, stderr |-> "Cannot open socket", json |-> FALSE, out |-> JNull],
      [kind |-> "exit", rc |-> 0, stderr |-> "", json |-> FALSE, out |-> JNull] } \cup
    { [kind |-> "exit", rc |-> 0, stderr |-> "", json |-> TRUE, out |-> doc] :
        doc \in RunPayloads }

\* run_speedtest(): exc = "" and the decoded document, or the exception
\* with its text.
run_speedtest(installed, proc) ==
    LET cmd == find_speedtest_cmd(installed)
    IN  IF cmd = <<>>
        THEN [exc |-> "RuntimeError", value |-> JNull,
              text |-> "No speedtest CLI found. Install Ookla Speedtest CLI (https://www.speedtest.net/apps/cli) or python speedtest-cli and put it in PATH."]
        ELSE IF proc.kind = "timeout"
        THEN [exc |-> "TimeoutExpired", value |-> JNull,
              text |-> "Command '['" \o cmd[1] \o "', '" \o cmd[2]
                         \o "']' timed out after 180 seconds"]
        ELSE IF proc.rc # 0
        THEN [exc |-> "RuntimeError", value |-> JNull,
              text |-> "speedtest returned code " \o Digits(proc.rc) \o ": "
                         \o (IF Len(proc.stderr) > 200
                             THEN SubSeq(proc.stderr, 1, 200) ELSE proc.stderr)]
        ELSE IF ~proc.json
        THEN [exc |-> "JSONDecodeError", value |-> JNull,
              text |-> "Expecting value: line 1 column 1 (char 0)"]
        ELSE [exc |-> "", value |-> proc.out, text |-> ""]

-----------------------------------------------------------------------------
(* send_discord_alert                                                      *)

\* What requests.post does: a response with a status, or an exception.
PostOutcomes ==
    { [raises |-> FALSE, status |-> 200], [raises |-> FALSE, status |-> 204],
      [raises |-> FALSE, status |-> 429], [raises |-> TRUE, status |-> 0] }

ShouldSend_Always(hook) == TRUE

\* `if not webhook: ... return None`
ShouldSend(hook) == hook # ""

ExceptCatches_Nothing(o) == FALSE

\* `except Exception` around requests.post catches what it raises.
ExceptCatches(o) == TRUE

\* One embed field: the value as a non-empty string of at most 1024 characters.
EmbedField(f) ==
    LET v == f[2]
    IN  [name |-> f[1], inline |-> f[3],
         value |-> IF Len(v) > 1024 THEN SubSeq(v, 1, 1020) \o "..." ELSE v]

\* send_discord_alert(text, title=title, fields=fields) when requests.post
\* does o: the lines printed, the calls of requests.post, and the exception
\* that leaves the function ("" when it returns).
send_discord_alert(text, title, fields, o) ==
    LET hook == Strip(webhook)
        payload ==
            [url |-> hook, content |-> text, username |-> "SpeedLogger",
             embeds |-> IF fields # <<>>
                        THEN << [title |-> title, type |-> "rich",
                                 fields |-> [i \in 1..Len(fields) |-> EmbedField(fields[i])]] >>
                        ELSE <<>>,
             outcome |-> o]
    IN  IF ~ShouldSend(hook)
        THEN [out |-> <<"No DISCORD_WEBHOOK configured. Alert not sent. Message would be: " \o text>>,
              post |-> <<>>, exc |-> ""]
        ELSE IF o.raises
        THEN IF ExceptCatches(o)
             THEN [out |-> <<"Error sending Discord alert: ConnectionError">>,
                   post |-> <<payload>>, exc |-> ""]
             ELSE [out |-> <<>>, post |-> <<payload>>, exc |-> "ConnectionError"]
        ELSE IF o.status \in {200, 204}
        THEN [out |-> <<>>, post |-> <<payload>>, exc |-> ""]
        ELSE [out |-> <<"Discord webhook returned " \o Digits(o.status)>>,
              post |-> <<payload>>, exc |-> ""]

-----------------------------------------------------------------------------
(* check_and_alert                                                         *)

MsgParseFailure == "Couldn't parse speedtest numbers properly."

MsgDownloadLow(download) ==
    "Download low: " \o Fmt1(download) \o " Mbps (< " \o Repr(thr.download) \o ")"

MsgUploadLow(upload) ==
    "Upload low: " \o Fmt1(upload) \o " Mbps (< " \o Repr(thr.upload) \o ")"

MsgHighPing(ping) ==
    "High ping: " \o Fmt1(ping) \o " ms (> " \o Repr(thr.ping) \o ")"

\* The msgs check_and_alert builds from its arguments.
AlertMsgs(download, upload, ping) ==
    (IF ~download.some \/ ~upload.some
     THEN <<MsgParseFailure>>
     ELSE (IF Lt(download, thr.download) THEN <<MsgDownloadLow(download)>> ELSE <<>>)
            \o (IF Lt(upload, thr.upload) THEN <<MsgUploadLow(upload)>> ELSE <<>>))
    \o (IF ping.some /\ Lt(thr.ping, ping) THEN <<MsgHighPing(ping)>> ELSE <<>>)

\* "\n".join(lines)
RECURSIVE JoinLines(_)
JoinLines(lines) ==
    IF lines = <<>> THEN ""
    ELSE IF Len(lines) = 1 THEN lines[1]
    ELSE lines[1] \o "\n" \o JoinLines(Tail(lines))

AlertPlain(ts, lines) == "Speedtest alert - " \o ts \o " UTC\n" \o JoinLines(lines)

AlertFields(ts, download, upload, ping, server_name, client_ip) ==
    << <<"Download", IF download.some THEN Fmt1(download) \o " Mbps" ELSE "n/a", TRUE>>,
       <<"Upload", IF upload.some THEN Fmt1(upload) \o " Mbps" ELSE "n/a", TRUE>>,
       <<"Ping", IF ping.some THEN Fmt1(ping) \o " ms" ELSE "n/a", TRUE>>,
       <<"Server", IF server_name # "" THEN server_name ELSE "n/a", FALSE>>,
       <<"Client IP", IF client_ip # "" THEN client_ip ELSE "n/a", FALSE>>,
       <<"Time (IST)", ts, FALSE>> >>

-----------------------------------------------------------------------------
(* main                                                                    *)

\* x or default, on a float or None: 0.0 is false like None.
OrDefault(x, default) == IF x.some /\ x.num # 0 THEN x ELSE default

\* The numbers main() hands to check_and_alert():
\* download or 0, upload or 0, ping or 9999.
AlertArgs(p) ==
    [download |-> OrDefault(p.download, MkFloat(0, 1)),
     upload   |-> OrDefault(p.upload, MkFloat(0, 1)),
     ping     |-> OrDefault(p.ping, MkFloat(9999, 1))]

StoredArgs_Substituted(p) == AlertArgs(p)

\* The numbers main() hands to push_to_db() and append_csv().
StoredArgs(p) == [download |-> p.download, upload |-> p.upload, ping |-> p.ping]

MainCatches_RuntimeErrorOnly(exc) == exc = "RuntimeError"

\* `except Exception as e` around run_speedtest() catches what it raises.
MainCatches(exc) == TRUE

\* sys.exit(1) in the handler of a failed run_speedtest().
ExitFailure == 1

\* The status of a process that an uncaught exception ends.
ExitUncaught == 1

CsvHeader ==
    <<"ts_utc", "download_mbps", "upload_mbps", "ping_ms", "server", "client_ip", "raw_file">>

WriteHeader_Always(exists) == TRUE

\* write_header = not os.path.exists(CSV_PATH)
WriteHeader(exists) == ~exists

Init ==
    /\ run = 0
    /\ pc = "idle"
    /\ clock = 0
    /\ webhook = ""
    /\ thr = DefaultThresholds
    /\ data = JNull
    /\ err = ""
    /\ raw_file = ""
    /\ parsed = Raised("")
    /\ ts_iso = ""
    /\ rawFiles = {}
    /\ dbTable = FALSE
    /\ db = <<>>
    /\ csvAtStart \in {"absent", "empty"}
    /\ csvExists = (csvAtStart = "empty")
    /\ csv = <<>>
    /\ msgs = <<>>
    /\ stdout = <<>>
    /\ posts = <<>>
    /\ exitCode = -1
    /\ steps = <<>>

\* The scheduler starts a process: the module is loaded, the configuration
\* is read from the environment and main() is entered.
StartRun ==
    /\ pc \in {"idle", "exited"}
    /\ run < MaxRuns
    /\ run' = run + 1
    /\ clock' = clock + 1
    /\ webhook' \in WebhookChoices
    /\ thr' \in ThresholdChoices
    /\ data' = JNull
    /\ err' = ""
    /\ raw_file' = ""
    /\ parsed' = Raised("")
    /\ ts_iso' = ""
    /\ msgs' = <<>>
    /\ stdout' = <<>>
    /\ posts' = <<>>
    /\ exitCode' = -1
    /\ steps' = <<>>
    /\ pc' = "run_speedtest"
    /\ UNCHANGED <<rawFiles, dbTable, db, csvAtStart, csvExists, csv>>

\* try: data = run_speedtest() / except Exception as e: an exception the
\* clause does not catch ends the process.
RunSpeedtest ==
    /\ pc = "run_speedtest"
    /\ \E installed \in Installed, proc \in ProcOutcomes :
          LET r == run_speedtest(installed, proc)
          IN  /\ data' = r.value
              /\ err' = r.text
              /\ IF r.exc = ""
                 THEN pc' = "save_raw" /\ UNCHANGED <<exitCode, stdout>>
                 ELSE IF MainCatches(r.exc)
                 THEN pc' = "failed" /\ UNCHANGED <<exitCode, stdout>>
                 ELSE /\ pc' = "exited"
                      /\ exitCode' = ExitUncaught
                      /\ stdout' = Append(stdout, "Traceback (most recent call last): " \o r.exc)
    /\ steps' = Append(steps, "run_speedtest")
    /\ UNCHANGED <<run, clock, webhook, thr, raw_file, parsed, ts_iso, rawFiles,
                   dbTable, db, csvAtStart, csvExists, csv, msgs, posts>>

\* except Exception as e: print, send_discord_alert, sys.exit(1).
NotifyFailure ==
    /\ pc = "failed"
    /\ \E o \in PostOutcomes :
          LET sent == send_discord_alert("Speedtest run failed: " \o err,
                                         "Speedtest - Failure", <<>>, o)
          IN  /\ stdout' = stdout \o <<"Failed to run speedtest: " \o err>> \o sent.out
              /\ posts' = posts \o sent.post
              /\ exitCode' = IF sent.exc # "" THEN ExitUncaught ELSE ExitFailure
    /\ pc' = "exited"
    /\ steps' = Append(steps, "notify_failure")
    /\ UNCHANGED <<run, clock, webhook, thr, data, err, raw_file, parsed, ts_iso,
                   rawFiles, dbTable, db, csvAtStart, csvExists, csv, msgs>>

\* raw_file = save_raw_json(data): open(fname, 'w') replaces a file of that name.
SaveRawJson ==
    /\ pc = "save_raw"
    /\ raw_file' = RawName(clock)
    /\ rawFiles' = {f \in rawFiles : f.name # RawName(clock)}
                     \cup {[name |-> RawName(clock), content |-> data]}
    /\ pc' = "parse"
    /\ steps' = Append(steps, "save_raw_json")
    /\ UNCHANGED <<run, clock, webhook, thr, data, err, parsed, ts_iso, dbTable,
                   db, csvAtStart, csvExists, csv, msgs, stdout, posts, exitCode>>

\* download, upload, ... = parse_speedtest_json(data); an exception is not
\* caught by main() and ends the process.
Parse ==
    /\ pc = "parse"
    /\ parsed' = parse_speedtest_json(data)
    /\ IF parsed'.exc # ""
       THEN /\ pc' = "exited"
            /\ exitCode' = ExitUncaught
            /\ stdout' = Append(stdout, "Traceback (most recent call last): " \o parsed'.exc)
       ELSE /\ pc' = "ensure_db"
            /\ UNCHANGED <<exitCode, stdout>>
    /\ steps' = Append(steps, "parse_speedtest_json")
    /\ UNCHANGED <<run, clock, webhook, thr, data, err, raw_file, ts_iso, rawFiles,
                   dbTable, db, csvAtStart, csvExists, csv, msgs, posts>>

\* ts_iso = get_ist_time().isoformat() + '+05:30'; conn = ensure_db()
EnsureDb ==
    /\ pc = "ensure_db"
    /\ ts_iso' = IsoFormat(get_ist_time(clock)) \o "+05:30"
    /\ dbTable' = TRUE
    /\ pc' = "push_to_db"
    /\ steps' = Append(steps, "ensure_db")
    /\ UNCHANGED <<run, clock, webhook, thr, data, err, raw_file, parsed, rawFiles,
                   db, csvAtStart, csvExists, csv, msgs, stdout, posts, exitCode>>

\* push_to_db(conn, ts_iso, download, upload, ping, server_id, server_name, client_ip, raw_file)
PushToDb ==
    /\ pc = "push_to_db"
    /\ dbTable
    /\ LET a == StoredArgs(parsed)
       IN  db' = Append(db, [id |-> Len(db) + 1, ts_utc |-> ts_iso,
                             download_mbps |-> a.download, upload_mbps |-> a.upload,
                             ping_ms |-> a.ping, server_id |-> parsed.server_id,
                             server_name |-> parsed.server_name,
                             client_ip |-> parsed.client_ip, raw_file |-> raw_file])
    /\ pc' = "append_csv"
    /\ steps' = Append(steps, "push_to_db")
    /\ UNCHANGED <<run, clock, webhook, thr, data, err, raw_file, parsed, ts_iso,
                   rawFiles, dbTable, csvAtStart, csvExists, csv, msgs, stdout,
                   posts, exitCode>>

\* append_csv(ts_iso, download, upload, ping, server_name, client_ip, raw_file)
AppendCsv ==
    /\ pc = "append_csv"
    /\ LET a == StoredArgs(parsed)
           row == <<ts_iso, CsvCell(a.download), CsvCell(a.upload), CsvCell(a.ping),
                    parsed.server_name, parsed.client_ip, raw_file>>
       IN  csv' = csv \o (IF WriteHeader(csvExists) THEN <<CsvHeader>> ELSE <<>>) \o <<row>>
    /\ csvExists' = TRUE
    /\ pc' = "check_and_alert"
    /\ steps' = Append(steps, "append_csv")
    /\ UNCHANGED <<run, clock, webhook, thr, data, err, raw_file, parsed, ts_iso,
                   rawFiles, dbTable, db, csvAtStart, msgs, stdout, posts, exitCode>>

\* check_and_alert(ts_iso, download or 0, upload or 0, ping or 9999, server_name, client_ip)
CheckAndAlert ==
    /\ pc = "check_and_alert"
    /\ LET a == AlertArgs(parsed)
           m == AlertMsgs(a.download, a.upload, a.ping)
       IN  /\ msgs' = m
           /\ IF m # <<>>
              THEN \E o \in PostOutcomes :
                     LET plain == AlertPlain(ts_iso, m)
                         sent  == send_discord_alert(
                                    plain, "Speedtest - Alert (Alliance Broadband)",
                                    AlertFields(ts_iso, a.download, a.upload, a.ping,
                                                parsed.server_name, parsed.client_ip),
                                    o)
                     IN  /\ stdout' = stdout \o <<plain>> \o sent.out
                         /\ posts' = posts \o sent.post
                         /\ IF sent.exc # ""
                            THEN pc' = "exited" /\ exitCode' = ExitUncaught
                            ELSE pc' = "print_summary" /\ UNCHANGED exitCode
              ELSE /\ pc' = "print_summary"
                   /\ UNCHANGED <<stdout, posts, exitCode>>
    /\ steps' = Append(steps, "check_and_alert")
    /\ UNCHANGED <<run, clock, webhook, thr, data, err, raw_file, parsed, ts_iso,
                   rawFiles, dbTable, db, csvAtStart, csvExists, csv>>

\* print(f"Logged ..."); main() returns and the process ends with status 0.
PrintSummary ==
    /\ pc = "print_summary"
    /\ stdout' = Append(stdout,
                   "Logged " \o ts_iso \o ": dl=" \o PyFormat(parsed.download)
                     \o " Mbps, ul=" \o PyFormat(parsed.upload)
                     \o " Mbps, ping=" \o PyFormat(parsed.ping)
                     \o " ms (server=" \o parsed.server_name \o ")")
    /\ exitCode' = 0
    /\ pc' = "exited"
    /\ steps' = Append(steps, "print_summary")
    /\ UNCHANGED <<run, clock, webhook, thr, data, err, raw_file, parsed, ts_iso,
                   rawFiles, dbTable, db, csvAtStart, csvExists, csv, msgs, posts>>

Next ==
    \/ StartRun
    \/ RunSpeedtest
    \/ NotifyFailure
    \/ SaveRawJson
    \/ Parse
    \/ EnsureDb
    \/ PushToDb
    \/ AppendCsv
    \/ CheckAndAlert
    \/ PrintSummary

Spec == Init /\ [][Next]_vars

-----------------------------------------------------------------------------
(* The parser on its own: main() has received a document and saved it, and *)
(* is about to call parse_speedtest_json.                                  *)

ParseInit ==
    /\ run = 1
    /\ pc = "parse"
    /\ clock = 1
    /\ webhook = ""
    /\ thr = DefaultThresholds
    /\ data \in ParsePayloads
    /\ err = ""
    /\ raw_file = RawName(1)
    /\ parsed = Raised("")
    /\ ts_iso = ""
    /\ rawFiles = {[name |-> RawName(1), content |-> data]}
    /\ dbTable = FALSE
    /\ db = <<>>
    /\ csvAtStart = "absent"
    /\ csvExists = FALSE
    /\ csv = <<>>
    /\ msgs = <<>>
    /\ stdout = <<>>
    /\ posts = <<>>
    /\ exitCode = -1
    /\ steps = <<"run_speedtest", "save_raw_json">>

ParseNext == Parse

SpecParse == ParseInit /\ [][ParseNext]_vars

-----------------------------------------------------------------------------
(* Properties.                                                             *)

Range(seq) == {seq[i] : i \in DOMAIN seq}

\* The timestamp under which the current process stores its rows.
ThisTs == IsoFormat(get_ist_time(clock)) \o "+05:30"

\* run_speedtest() raised in the current process.
RunnerFailed == err # ""

\* The current process has called f.
Called(f) == f \in Range(steps)

LocalPrint(text) ==
    "No DISCORD_WEBHOOK configured. Alert not sent. Message would be: " \o text

\* C1: when run_speedtest() raises, the failure text is composed into a
\* notification (posted, or printed locally), the process ends with status 1
\* having called nothing else, and it writes no raw file and no row to the
\* table or to the CSV file.
C1_RunnerFailureShortCircuits ==
    RunnerFailed =>
        /\ \A f \in rawFiles : f.name # RawName(clock)
        /\ \A i \in DOMAIN db : db[i].ts_utc # ThisTs
        /\ \A i \in DOMAIN csv : csv[i][1] # ThisTs
        /\ raw_file = ""
        /\ pc \in {"failed", "exited"}
        /\ pc = "exited" =>
              /\ exitCode = 1
              /\ steps = <<"run_speedtest", "notify_failure">>
              /\ Len(posts) <= 1
              /\ \/ posts # <<>> /\ posts[1].content = "Speedtest run failed: " \o err
                 \/ posts = <<>> /\ LocalPrint("Speedtest run failed: " \o err) \in Range(stdout)

\* A process fails on undecodable tool output after an earlier one stored a
\* row, and its notification is posted.
C1_Witness ==
    /\ pc = "exited"
    /\ RunnerFailed
    /\ err = "Expecting value: line 1 column 1 (char 0)"
    /\ posts # <<>>
    /\ Len(db) >= 1

AllSteps ==
    <<"run_speedtest", "save_raw_json", "parse_speedtest_json", "ensure_db",
      "push_to_db", "append_csv", "check_and_alert", "print_summary">>

\* C2: a process whose run_speedtest() returned ends with status 0 after
\* making each call of the pipeline exactly once, in order.
C2_SuccessfulRunnerRunsAllSteps ==
    (pc = "exited" /\ ~RunnerFailed) => (steps = AllSteps /\ exitCode = 0)

\* doc has no nested download value, no flat one and no alternate key.
NoDownloadValue(doc) ==
    /\ doc.k = "dict"
    /\ ~(Get(doc, "download").k = "dict" /\ "bandwidth" \in DOMAIN Get(doc, "download").sub)
    /\ ~IsNumber(Get(doc, "download"))
    /\ \A i \in DOMAIN AltDownloadKeys : ~IsNumber(Get(doc, AltDownloadKeys[i]))

\* C3: when the document has no download value, the parsed download is null
\* and the alert evaluation emits the parse-failure notice.
C3_MissingDownloadRaisesParseNotice ==
    (Called("check_and_alert") /\ NoDownloadValue(data)) =>
        (~parsed.download.some /\ MsgParseFailure \in Range(msgs))

\* A high-ping notice is among msgs, whatever value it reports.
HighPingRaised ==
    \E v \in {parsed.ping, MkFloat(9999, 1)} : v.some /\ MsgHighPing(v) \in Range(msgs)

\* C4: when download, upload and ping are all parsed, each notice is raised
\* iff the parsed value crosses its threshold, msgs holds exactly the raised
\* notices, and the alert is composed iff there is one.
C4_ThresholdNoticesMatchParsedValues ==
    (Called("check_and_alert") /\ parsed.download.some /\ parsed.upload.some
        /\ parsed.ping.some) =>
        LET dlLow == Lt(parsed.download, thr.download)
            ulLow == Lt(parsed.upload, thr.upload)
            pgHigh == Lt(thr.ping, parsed.ping)
        IN  /\ (MsgDownloadLow(parsed.download) \in Range(msgs)) <=> dlLow
            /\ (MsgUploadLow(parsed.upload) \in Range(msgs)) <=> ulLow
            /\ HighPingRaised <=> pgHigh
            /\ Len(msgs) = Cardinality({b \in {<<1, dlLow>>, <<2, ulLow>>, <<3, pgHigh>>} : b[2]})
            /\ (AlertPlain(ts_iso, msgs) \in Range(stdout)) <=> (msgs # <<>>)

\* C5: the row of the table and the row of the CSV file hold the numbers the
\* parser returned, null where it returned null.
C5_StoredValuesAreParsedValues ==
    LET p == parse_speedtest_json(data)
    IN  /\ Called("push_to_db") =>
              LET r == db[Len(db)]
              IN  /\ r.download_mbps = p.download
                  /\ r.upload_mbps = p.upload
                  /\ r.ping_ms = p.ping
                  /\ r.ts_utc = ThisTs
        /\ Called("append_csv") =>
              LET c == csv[Len(csv)]
              IN  /\ c[2] = (IF p.download.some THEN Repr(p.download) ELSE "")
                  /\ c[3] = (IF p.upload.some THEN Repr(p.upload) ELSE "")
                  /\ c[4] = (IF p.ping.some THEN Repr(p.ping) ELSE "")
                  /\ c[1] = ThisTs

\* Both rows are written for a document without download and ping, whose
\* comparison values are the sentinels.
C5_Witness ==
    /\ Called("check_and_alert")
    /\ ~parsed.download.some
    /\ ~parsed.ping.some
    /\ AlertArgs(parsed).ping = MkFloat(9999, 1)
    /\ db[Len(db)].ping_ms = PyNone
    /\ csv[Len(csv)][2] = ""

\* C6: the parser returns for every document.
C6_ParserNeverRaises ==
    Called("parse_speedtest_json") => parsed.exc = ""

\* The value of the last / first of keys that holds a number, None without one.
LastNumeric(doc, keys) ==
    LET I == {i \in DOMAIN keys : IsNumber(Get(doc, keys[i]))}
    IN  IF I = {} THEN PyNone
        ELSE LET m == CHOOSE i \in I : \A j \in I : j <= i
             IN  MkFloat(doc.sub[keys[m]].n, doc.sub[keys[m]].d)

FirstNumeric(doc, keys) ==
    LET I == {i \in DOMAIN keys : IsNumber(Get(doc, keys[i]))}
    IN  IF I = {} THEN PyNone
        ELSE LET m == CHOOSE i \in I : \A j \in I : i <= j
             IN  MkFloat(doc.sub[keys[m]].n, doc.sub[keys[m]].d)

\* The throughput the stated rules give for entry `key` of doc: flat numbers
\* are Mbps already, and the first alternate key with a number wins.
StatedThroughput(doc, key, keys) ==
    LET v == Get(doc, key)
    IN  IF v.k = "dict" /\ "bandwidth" \in DOMAIN v.sub
        THEN MkFloat(v.sub["bandwidth"].n, v.sub["bandwidth"].d * 1000000)
        ELSE IF v.k = "num" THEN MkFloat(v.n, v.d)
        ELSE FirstNumeric(doc, keys)

\* The throughput the code gives: flat numbers are divided like nested
\* ones, and the last alternate key with a number wins.
CodeThroughput(doc, key, keys) ==
    LET v == Get(doc, key)
    IN  IF v.k = "dict" /\ "bandwidth" \in DOMAIN v.sub
        THEN LET b == v.sub["bandwidth"]
             IN  IF b.k = "str"
                 THEN MkFloat(NumericText(b.s).num, NumericText(b.s).den * 1000000)
                 ELSE MkFloat(b.n, b.d * 1000000)
        ELSE IF IsNumber(v) THEN MkFloat(v.n, v.d * 1000000)
        ELSE LastNumeric(doc, keys)

\* The nested bandwidth of entry `key`, when there is one, is a JSON number.
PlainEntry(doc, key) ==
    LET v == Get(doc, key)
    IN  /\ (v.k = "dict" /\ "bandwidth" \in DOMAIN v.sub) => v.sub["bandwidth"].k = "num"
        /\ v.k # "bool"

\* C7 as stated: nested bandwidth / 1,000,000; else a flat number unchanged;
\* else the first alternate key that holds a number.
C7_StatedExtractionRules ==
    (Called("parse_speedtest_json") /\ parsed.exc = "" /\ data.k = "dict"
        /\ PlainEntry(data, "download") /\ PlainEntry(data, "upload")) =>
        /\ parsed.download = StatedThroughput(data, "download", AltDownloadKeys)
        /\ parsed.upload = StatedThroughput(data, "upload", AltUploadKeys)

\* float() rejects the nested bandwidth of entry `key`.
BadBandwidth(doc, key) ==
    LET v == Get(doc, key)
    IN  /\ v.k = "dict"
        /\ "bandwidth" \in DOMAIN v.sub
        /\ ~IsNumber(v.sub["bandwidth"])
        /\ ~(v.sub["bandwidth"].k = "str" /\ NumericText(v.sub["bandwidth"].s).some)

\* C7 amended: a nested bandwidth and a flat number are both divided by
\* 1,000,000; the alternate keys are consulted only when neither gave a
\* value, are taken unchanged, and the last of them that holds a number
\* wins.  The parser raises instead of returning when float() rejects a
\* nested bandwidth.
C7_CodeExtractionRules ==
    (Called("parse_speedtest_json") /\ data.k = "dict") =>
        /\ (BadBandwidth(data, "download") \/ BadBandwidth(data, "upload")) =>
              parsed.exc \in {"ValueError", "TypeError"}
        /\ parsed.exc = "" =>
              /\ parsed.download = CodeThroughput(data, "download", AltDownloadKeys)
              /\ parsed.upload = CodeThroughput(data, "upload", AltUploadKeys)

\* The parser returned for a document with a flat upload number and, in
\* place of a download entry, two alternate keys holding different numbers.
C7_Witness ==
    /\ Called("parse_speedtest_json")
    /\ parsed.exc = ""
    /\ data.k = "dict"
    /\ Get(data, "upload").k = "num"
    /\ "download" \notin DOMAIN data.sub
    /\ IsNumber(Get(data, "download_mbps"))
    /\ IsNumber(Get(data, "download_bandwidth"))
    /\ parsed.download.some

\* The number of append_csv() calls that have returned.
Appends == Len(db) - (IF pc = "append_csv" THEN 1 ELSE 0)

\* C8: a CSV file that did not exist before the first append_csv() call is
\* one header row followed by one row per call, in call order, seven columns
\* in every row; a file that existed (empty) gets no header row.
C8_OneHeaderThenOneRowPerCall ==
    /\ \A i \in DOMAIN csv : Len(csv[i]) = 7
    /\ (csvAtStart = "absent" /\ ~csvExists) => (csv = <<>> /\ Appends = 0)
    /\ (csvAtStart = "absent" /\ csvExists) =>
          /\ Appends >= 1
          /\ Len(csv) = 1 + Appends
          /\ csv[1] = CsvHeader
          /\ \A i \in 1..Appends :
                /\ csv[i + 1] # CsvHeader
                /\ csv[i + 1][1] = db[i].ts_utc
                /\ csv[i + 1][7] = db[i].raw_file
    /\ csvAtStart = "empty" =>
          /\ Len(csv) = Appends
          /\ \A i \in 1..Appends :
                /\ csv[i] # CsvHeader
                /\ csv[i][1] = db[i].ts_utc

\* Two calls have appended to a file that did not exist before the first.
C8_Witness ==
    /\ csvAtStart = "absent"
    /\ Len(csv) >= 3
    /\ pc = "check_and_alert"

\* C9: a process calls the webhook at most once, and never when no endpoint
\* is configured; then an alert or a failure notice is printed locally, and
\* the process that raised the alert ends with status 0 with both rows stored.
C9_NoWebhookNoCall ==
    /\ Len(posts) <= 1
    /\ webhook \in {"", "  "} =>
          /\ posts = <<>>
          /\ (pc = "exited" /\ RunnerFailed) =>
                LocalPrint("Speedtest run failed: " \o err) \in Range(stdout)
          /\ (Called("check_and_alert") /\ msgs # <<>>) =>
                /\ LocalPrint(AlertPlain(ts_iso, msgs)) \in Range(stdout)
                /\ pc \in {"print_summary", "exited"}
                /\ pc = "exited" => (exitCode = 0 /\ steps = AllSteps)
                /\ db[Len(db)].ts_utc = ThisTs
                /\ csv[Len(csv)][1] = ThisTs

\* A process without a webhook raised an alert and ended with status 0.
C9_Witness ==
    /\ webhook = ""
    /\ pc = "exited"
    /\ msgs # <<>>
    /\ exitCode = 0

\* The webhook call of the current process failed.
DeliveryFailed ==
    posts # <<>> /\ (posts[1].outcome.raises \/ posts[1].outcome.status \notin {200, 204})

\* C10: a failed webhook call does not end the process and touches no stored
\* row: after an alert the process goes on to its summary and status 0 with
\* its two rows in place, after a runner failure it ends with status 1.
C10_DeliveryFailureNotFatal ==
    DeliveryFailed =>
        IF RunnerFailed
        THEN pc = "exited" /\ exitCode = 1 /\ steps = <<"run_speedtest", "notify_failure">>
        ELSE /\ pc \in {"print_summary", "exited"}
             /\ pc = "print_summary" => exitCode = -1
             /\ pc = "exited" => (exitCode = 0 /\ steps = AllSteps)
             /\ db[Len(db)].ts_utc = ThisTs
             /\ db[Len(db)].download_mbps = parsed.download
             /\ csv[Len(csv)][1] = ThisTs

\* requests.post raised while an alert was sent, and the process ended with
\* status 0.
C10_Witness ==
    /\ pc = "exited"
    /\ posts # <<>>
    /\ posts[1].outcome.raises
    /\ ~RunnerFailed
    /\ exitCode = 0

=============================================================================
